---- MODULE Spec2Model ----
(***************************************************************************)
(* Model of qutebrowser/config/conftypes.py: the setting types, each with  *)
(* validate(value) and transform(value).                                   *)
(*                                                                         *)
(* A Python str is a sequence of one-character strings.  A Python value is *)
(* a record [tag, v]; the outcome of a call is a record [exc, reason, val] *)
(* where exc = "none" means the call returned val.                         *)
(***************************************************************************)
EXTENDS Integers, Sequences, FiniteSets, TLC

\* ------------------------------------------------------------------ bounds

\* Longest raw text enumerated exhaustively over FreeChars.
MaxLen == 3

\* How many times transform is applied in a row to its own result.
MaxCalls == 2

\* ------------------------------------------------------- str primitives

LowerLetters ==
    <<"a","b","c","d","e","f","g","h","i","j","k","l","m",
      "n","o","p","q","r","s","t","u","v","w","x","y","z">>

UpperLetters ==
    <<"A","B","C","D","E","F","G","H","I","J","K","L","M",
      "N","O","P","Q","R","S","T","U","V","W","X","Y","Z">>

Digits == <<"0","1","2","3","4","5","6","7","8","9">>

\* str.lower() on one character.
LowerChar(c) ==
    IF \E i \in 1..26 : UpperLetters[i] = c
    THEN LowerLetters[CHOOSE i \in 1..26 : UpperLetters[i] = c]
    ELSE c

\* str.upper() on one character.
UpperChar(c) ==
    IF \E i \in 1..26 : LowerLetters[i] = c
    THEN UpperLetters[CHOOSE i \in 1..26 : LowerLetters[i] = c]
    ELSE c

\* str.swapcase() on one character.
SwapChar(c) == IF LowerChar(c) = c THEN UpperChar(c) ELSE LowerChar(c)

\* str.lower()
Lower(s) == [i \in 1..Len(s) |-> LowerChar(s[i])]

Upper(s) == [i \in 1..Len(s) |-> UpperChar(s[i])]

SwapCase(s) == [i \in 1..Len(s) |-> SwapChar(s[i])]

IsDigit(c) == \E i \in 1..10 : Digits[i] = c

DigitVal(c) == (CHOOSE i \in 1..10 : Digits[i] = c) - 1

AllDigits(s) == \A i \in 1..Len(s) : IsDigit(s[i])

\* The value of a run of decimal digits (0 for the empty run).
RECURSIVE DigitsVal(_)
DigitsVal(s) ==
    IF s = <<>> THEN 0
    ELSE 10 * DigitsVal(SubSeq(s, 1, Len(s) - 1)) + DigitVal(s[Len(s)])

\* str.endswith(suffix)
EndsWith(s, suffix) ==
    /\ Len(s) >= Len(suffix)
    /\ SubSeq(s, Len(s) - Len(suffix) + 1, Len(s)) = suffix

\* str.startswith(prefix)
StartsWith(s, prefix) ==
    /\ Len(s) >= Len(prefix)
    /\ SubSeq(s, 1, Len(prefix)) = prefix

\* sub in s
Contains(s, sub) ==
    \E i \in 1..(Len(s) - Len(sub) + 1) : SubSeq(s, i, i + Len(sub) - 1) = sub

\* str.rstrip(c): every trailing c is removed.
RECURSIVE RStrip(_, _)
RStrip(s, c) ==
    IF s # <<>> /\ s[Len(s)] = c THEN RStrip(SubSeq(s, 1, Len(s) - 1), c) ELSE s

RECURSIVE LStrip(_, _)
LStrip(s, c) ==
    IF s # <<>> /\ s[1] = c THEN LStrip(Tail(s), c) ELSE s

\* The surrounding blanks int() and float() ignore.
StripBlanks(s) == LStrip(RStrip(s, " "), " ")

\* str.split(sep) for a one-character sep: never empty, empty pieces kept.
RECURSIVE Split(_, _)
Split(s, sep) ==
    IF \E i \in 1..Len(s) : s[i] = sep
    THEN LET i == CHOOSE k \in 1..Len(s) :
                     s[k] = sep /\ \A j \in 1..(k - 1) : s[j] # sep
         IN  <<SubSeq(s, 1, i - 1)>> \o Split(SubSeq(s, i + 1, Len(s)), sep)
    ELSE <<s>>

\* --------------------------------------------------------- Python values

NoneV == [tag |-> "none", v |-> <<>>]
StrV(s) == [tag |-> "str", v |-> s]
BoolV(b) == [tag |-> "bool", v |-> b]
IntV(n) == [tag |-> "int", v |-> n]
\* A float: kind "fin" is m * 10^(-s) with s >= 0 and no trailing zero in m,
\* kind "inf" carries its sign in m, kind "nan" is not-a-number.
FloatV(kind, m, s) == [tag |-> "float", v |-> <<kind, m, s>>]
\* A list of values.
ListV(items) == [tag |-> "list", v |-> items]
\* The lazy iterator map(int, vals): nothing is parsed until it is consumed.
MapIntV(items) == [tag |-> "map", v |-> items]

Ret(val) == [exc |-> "none", reason |-> "", val |-> val]
Raise(exc, reason) == [exc |-> exc, reason |-> reason, val |-> NoneV]
ValidationError(reason) == Raise("ValidationError", reason)

RECURSIVE Pow10(_)
Pow10(n) == IF n <= 0 THEN 1 ELSE 10 * Pow10(n - 1)

\* bool(value): Python truthiness.
Truthy(x) ==
    CASE x.tag = "none" -> FALSE
      [] x.tag = "str" -> x.v # <<>>
      [] x.tag = "bool" -> x.v
      [] x.tag = "int" -> x.v # 0
      [] x.tag = "float" -> ~(x.v[1] = "fin" /\ x.v[2] = 0)
      [] x.tag = "list" -> x.v # <<>>
      [] OTHER -> TRUE

IsNumber(x) == x.tag \in {"bool", "int"} \/ (x.tag = "float" /\ x.v[1] = "fin")

\* A finite number as <<m, s>>, meaning m * 10^(-s).
AsDecimal(x) ==
    CASE x.tag = "bool" -> <<IF x.v THEN 1 ELSE 0, 0>>
      [] x.tag = "int" -> <<x.v, 0>>
      [] OTHER -> <<x.v[2], x.v[3]>>

\* a == b in Python: numbers compare by value across bool, int and float,
\* nan equals nothing (itself included), everything else by type and content.
RECURSIVE PyEq(_, _)
PyEq(a, b) ==
    IF IsNumber(a) /\ IsNumber(b)
    THEN LET da == AsDecimal(a)
             db == AsDecimal(b)
         IN  da[1] * Pow10(db[2]) = db[1] * Pow10(da[2])
    ELSE IF a.tag # b.tag THEN FALSE
    ELSE IF a.tag = "float" THEN a.v[1] = "inf" /\ b.v[1] = "inf" /\ a.v[2] = b.v[2]
    ELSE IF a.tag = "list"
    THEN /\ Len(a.v) = Len(b.v)
         /\ \A i \in 1..Len(a.v) : PyEq(a.v[i], b.v[i])
    ELSE a.v = b.v

\* ------------------------------------------------------- int() and float()

\* The text after an optional sign.
Unsigned(s) == IF s # <<>> /\ s[1] \in {"-", "+"} THEN Tail(s) ELSE s

IsNegative(s) == s # <<>> /\ s[1] = "-"

\* An optional sign and at least one decimal digit.
IsSignedDigits(s) == Unsigned(s) # <<>> /\ AllDigits(Unsigned(s))

SignedVal(s) ==
    IF IsNegative(s) THEN 0 - DigitsVal(Unsigned(s)) ELSE DigitsVal(Unsigned(s))

\* Whether int(s) parses the str s (base 10, surrounding blanks ignored).
IsIntLiteral(s) == IsSignedDigits(StripBlanks(s))

IntLiteralVal(s) == SignedVal(StripBlanks(s))

\* Index of the first c in s, 0 when there is none.
IndexOf(s, c) ==
    IF \E i \in 1..Len(s) : s[i] = c
    THEN CHOOSE k \in 1..Len(s) : s[k] = c /\ \A j \in 1..(k - 1) : s[j] # c
    ELSE 0

\* The mantissa text of a decimal float literal (before any exponent).
Mantissa(s) ==
    LET e == IndexOf(Lower(s), "e")
    IN  IF e = 0 THEN s ELSE SubSeq(s, 1, e - 1)

HasExponent(s) == IndexOf(Lower(s), "e") # 0

Exponent(s) == SubSeq(s, IndexOf(Lower(s), "e") + 1, Len(s))

IntPart(m) ==
    LET p == IndexOf(m, ".")
    IN  IF p = 0 THEN m ELSE SubSeq(m, 1, p - 1)

FracPart(m) ==
    LET p == IndexOf(m, ".")
    IN  IF p = 0 THEN <<>> ELSE SubSeq(m, p + 1, Len(m))

\* digits [. digits] | . digits, then an optional e[+-]digits
IsDecimalLiteral(s) ==
    LET m == Mantissa(s)
    IN  /\ AllDigits(IntPart(m))
        /\ AllDigits(FracPart(m))
        /\ Len(IntPart(m)) + Len(FracPart(m)) >= 1
        /\ HasExponent(s) => IsSignedDigits(Exponent(s))

Inf == <<"i","n","f">>
Infinity == <<"i","n","f","i","n","i","t","y">>
NaN == <<"n","a","n">>

\* Whether float(s) parses the str s.
IsFloatLiteral(s) ==
    LET body == Unsigned(StripBlanks(s))
    IN  \/ Lower(body) \in {Inf, Infinity, NaN}
        \/ IsDecimalLiteral(body)

\* m * 10^(-s) with s >= 0 and no trailing zero in m.
RECURSIVE Normalise(_, _)
Normalise(m, s) ==
    IF m = 0 THEN <<0, 0>>
    ELSE IF s < 0 THEN <<m * Pow10(0 - s), 0>>
    ELSE IF s > 0 /\ m % 10 = 0 THEN Normalise(m \div 10, s - 1)
    ELSE <<m, s>>

FloatLiteralVal(s) ==
    LET t == StripBlanks(s)
        body == Unsigned(t)
        sign == IF IsNegative(t) THEN 0 - 1 ELSE 1
    IN  IF Lower(body) \in {Inf, Infinity} THEN FloatV("inf", sign, 0)
        ELSE IF Lower(body) = NaN THEN FloatV("nan", 0, 0)
        ELSE LET m == Mantissa(body)
                 e == IF HasExponent(body) THEN SignedVal(Exponent(body)) ELSE 0
                 n == Normalise(sign * DigitsVal(IntPart(m) \o FracPart(m)),
                                Len(FracPart(m)) - e)
             IN  FloatV("fin", n[1], n[2])

\* The integer part of m * 10^(-s), towards zero.
Truncate(m, s) ==
    IF m >= 0 THEN m \div Pow10(s) ELSE 0 - ((0 - m) \div Pow10(s))

\* int(value)
PyInt(x) ==
    CASE x.tag = "str" ->
            IF IsIntLiteral(x.v) THEN Ret(IntV(IntLiteralVal(x.v)))
            ELSE Raise("ValueError", "invalid literal for int()")
      [] x.tag = "int" -> Ret(x)
      [] x.tag = "bool" -> Ret(IntV(IF x.v THEN 1 ELSE 0))
      [] x.tag = "float" ->
            CASE x.v[1] = "fin" -> Ret(IntV(Truncate(x.v[2], x.v[3])))
              [] x.v[1] = "nan" -> Raise("ValueError", "cannot convert float NaN to integer")
              [] OTHER -> Raise("OverflowError", "cannot convert float infinity to integer")
      [] OTHER -> Raise("TypeError", "int() argument must be a string or a number")

\* float(value)
PyFloat(x) ==
    CASE x.tag = "str" ->
            IF IsFloatLiteral(x.v) THEN Ret(FloatLiteralVal(x.v))
            ELSE Raise("ValueError", "could not convert string to float")
      [] x.tag = "float" -> Ret(x)
      [] x.tag = "int" -> Ret(FloatV("fin", Normalise(x.v, 0)[1], Normalise(x.v, 0)[2]))
      [] x.tag = "bool" -> Ret(FloatV("fin", IF x.v THEN 1 ELSE 0, 0))
      [] OTHER -> Raise("TypeError", "float() argument must be a string or a number")

\* value.lower(): only a str has the method.
PyLower(x) ==
    IF x.tag = "str" THEN Ret(StrV(Lower(x.v)))
    ELSE Raise("AttributeError", "no attribute 'lower'")

\* value.rstrip('%')
PyRStripPercent(x) ==
    IF x.tag = "str" THEN Ret(StrV(RStrip(x.v, "%")))
    ELSE Raise("AttributeError", "no attribute 'rstrip'")

\* value.split(',')
PySplitComma(x) ==
    IF x.tag = "str"
    THEN Ret(ListV([i \in 1..Len(Split(x.v, ",")) |-> StrV(Split(x.v, ",")[i])]))
    ELSE Raise("AttributeError", "no attribute 'split'")

\* [f(x) for x in items] with f = int: the first element that raises ends it.
RECURSIVE IntEach(_)
IntEach(items) ==
    IF items = <<>> THEN Ret(ListV(<<>>))
    ELSE LET h == PyInt(items[1])
         IN  IF h.exc # "none" THEN h
             ELSE LET t == IntEach(Tail(items))
                  IN  IF t.exc # "none" THEN t
                      ELSE Ret(ListV(<<h.val>> \o t.val.v))

\* ------------------------------------------------------------ the classes

Types ==
    {"BaseType", "String", "Bool", "Int", "Float", "List", "IntList", "Perc",
     "PercList", "ZoomPerc", "PercOrInt", "Command", "Color", "Font",
     "SearchEngineName", "SearchEngineUrl", "KeyBindingName", "AutoSearch",
     "Position", "SelectOnRemove", "LastClose", "KeyBinding"}

\* The setting types proper: every class but the abstract base.
ConcreteTypes == Types \ {"BaseType"}

\* class X(Parent)
Parent(cls) ==
    CASE cls \in {"IntList", "PercList"} -> "List"
      [] cls = "ZoomPerc" -> "Perc"
      [] cls \in {"Position", "SelectOnRemove", "LastClose"} -> "String"
      [] cls = "KeyBinding" -> "Command"
      [] OTHER -> "BaseType"

\* The classes whose body has a  def validate.
ValidateDefsNoKeyBindingName ==
    {"BaseType", "String", "Bool", "Int", "Float", "List", "IntList", "Perc",
     "PercList", "ZoomPerc", "PercOrInt", "Command", "Color", "Font",
     "SearchEngineName", "SearchEngineUrl", "AutoSearch"}

ValidateDefs ==
    {"BaseType", "String", "Bool", "Int", "Float", "List", "IntList", "Perc",
     "PercList", "ZoomPerc", "PercOrInt", "Command", "Color", "Font",
     "SearchEngineName", "SearchEngineUrl", "KeyBindingName", "AutoSearch"}

\* The classes whose body has a  def transform.
TransformDefs ==
    {"BaseType", "String", "Bool", "Int", "Float", "List", "IntList", "Perc",
     "PercList", "AutoSearch"}

\* The classes whose body assigns valid_values.
ValidValuesDefs ==
    {"BaseType", "Bool", "AutoSearch", "Position", "SelectOnRemove", "LastClose"}

\* Attribute lookup along the method resolution order (single inheritance).
RECURSIVE Resolve(_, _)
Resolve(cls, defs) == IF cls \in defs THEN cls ELSE Resolve(Parent(cls), defs)

s_true == <<"t","r","u","e">>
s_false == <<"f","a","l","s","e">>
s_yes == <<"y","e","s">>
s_no == <<"n","o">>
s_on == <<"o","n">>
s_off == <<"o","f","f">>
s_1 == <<"1">>
s_0 == <<"0">>
s_naive == <<"n","a","i","v","e">>
s_dns == <<"d","n","s">>

\* ValidValues.values of the class body that assigns valid_values; isNone for
\* BaseType's  valid_values = None.
ValidValuesAttr(cls) ==
    CASE cls = "Bool" -> [isNone |-> FALSE, values |-> <<s_true, s_false>>]
      [] cls = "AutoSearch" ->
            [isNone |-> FALSE, values |-> <<s_naive, s_dns, s_false>>]
      [] cls = "Position" ->
            [isNone |-> FALSE,
             values |-> <<<<"n","o","r","t","h">>, <<"s","o","u","t","h">>, <<"e","a","s","t">>, <<"w","e","s","t">>>>]
      [] cls = "SelectOnRemove" ->
            [isNone |-> FALSE,
             values |-> <<<<"l","e","f","t">>, <<"r","i","g","h","t">>, <<"p","r","e","v","i","o","u","s">>>>]
      [] cls = "LastClose" ->
            [isNone |-> FALSE,
             values |-> <<<<"i","g","n","o","r","e">>, <<"b","l","a","n","k">>, <<"q","u","i","t">>>>]
      [] OTHER -> [isNone |-> TRUE, values |-> <<>>]

\* self.valid_values
valid_values(self) == ValidValuesAttr(Resolve(self, ValidValuesDefs))

\* ValidValues.__contains__
InValidValues(vv, val) == \E i \in 1..Len(vv.values) : vv.values[i] = val

\* Bool._BOOLEAN_STATES without the 'on' entry.
BOOLEAN_STATES_NoOn ==
    (s_1 :> TRUE) @@ (s_yes :> TRUE) @@ (s_true :> TRUE) @@
    (s_0 :> FALSE) @@ (s_no :> FALSE) @@ (s_false :> FALSE) @@ (s_off :> FALSE)

\* Bool._BOOLEAN_STATES
BOOLEAN_STATES ==
    (s_1 :> TRUE) @@ (s_yes :> TRUE) @@ (s_true :> TRUE) @@ (s_on :> TRUE) @@
    (s_0 :> FALSE) @@ (s_no :> FALSE) @@ (s_false :> FALSE) @@ (s_off :> FALSE)

\* Color._GRADIENTS
GRADIENTS ==
    <<<<"q","l","i","n","e","a","r","g","r","a","d","i","e","n","t">>,
      <<"q","r","a","d","i","a","l","g","r","a","d","i","e","n","t">>,
      <<"q","c","o","n","i","c","a","l","g","r","a","d","i","e","n","t">>>>

\* ------------------------------------------------------------- transform

BaseType_transform(self, value) == Ret(value)

\* value.swapcase() in place of value.lower()
String_transform_swapcase(self, value) ==
    IF value.tag = "str" THEN Ret(StrV(SwapCase(value.v)))
    ELSE Raise("AttributeError", "no attribute 'swapcase'")

String_transform(self, value) == PyLower(value)

Bool_transform(self, value) ==
    LET l == PyLower(value)
    IN  IF l.exc # "none" THEN l
        ELSE IF l.val.v \in DOMAIN BOOLEAN_STATES
        THEN Ret(BoolV(BOOLEAN_STATES[l.val.v]))
        ELSE Raise("KeyError", "")

Int_transform(self, value) == PyInt(value)

Float_transform(self, value) == PyFloat(value)

List_transform(self, value) == PySplitComma(value)

\* super() in IntList is List; the result is the unconsumed map(int, vals).
IntList_transform(self, value) ==
    LET vals == List_transform(self, value)
    IN  IF vals.exc # "none" THEN vals ELSE Ret(MapIntV(vals.val.v))

Perc_transform(self, value) ==
    LET s == PyRStripPercent(value)
    IN  IF s.exc # "none" THEN s ELSE PyInt(s.val)

\* [int(val.rstrip('%')) for val in vals]
RECURSIVE PercEach(_)
PercEach(items) ==
    IF items = <<>> THEN Ret(ListV(<<>>))
    ELSE LET h == Perc_transform("Perc", items[1])
         IN  IF h.exc # "none" THEN h
             ELSE LET t == PercEach(Tail(items))
                  IN  IF t.exc # "none" THEN t
                      ELSE Ret(ListV(<<h.val>> \o t.val.v))

PercList_transform(self, value) ==
    LET vals == List_transform(self, value)
    IN  IF vals.exc # "none" THEN vals ELSE PercEach(vals.val.v)

\* super() in AutoSearch is BaseType, whose transform returns value itself;
\* the elif tests that value's truthiness.
AutoSearch_transform(self, value) ==
    LET l == PyLower(value)
    IN  IF l.exc # "none" THEN l
        ELSE IF l.val.v \in {s_naive, s_dns} THEN l
        ELSE IF Truthy(BaseType_transform(self, value).val) THEN Ret(StrV(s_naive))
        ELSE Ret(BoolV(FALSE))

\* self.transform(value)
transform(self, value) ==
    LET impl == Resolve(self, TransformDefs)
    IN  CASE impl = "String" -> String_transform(self, value)
          [] impl = "Bool" -> Bool_transform(self, value)
          [] impl = "Int" -> Int_transform(self, value)
          [] impl = "Float" -> Float_transform(self, value)
          [] impl = "List" -> List_transform(self, value)
          [] impl = "IntList" -> IntList_transform(self, value)
          [] impl = "Perc" -> Perc_transform(self, value)
          [] impl = "PercList" -> PercList_transform(self, value)
          [] impl = "AutoSearch" -> AutoSearch_transform(self, value)
          [] OTHER -> BaseType_transform(self, value)

\* list(it): consuming the sequence a transform returned.
Consumed(x) == IF x.tag = "map" THEN IntEach(x.v) ELSE Ret(x)

\* -------------------------------------------------------------- validate

BaseType_validate(self, value) ==
    IF ~valid_values(self).isNone
    THEN IF ~(value.tag = "str" /\ InValidValues(valid_values(self), value.v))
         THEN ValidationError("valid values: {}")
         ELSE Ret(NoneV)
    ELSE Raise("NotImplementedError", "{} does not implement validate.")

String_validate(self, value) == Ret(NoneV)

Bool_validate(self, value) ==
    LET l == PyLower(value)
    IN  IF l.exc # "none" THEN l
        ELSE IF l.val.v \notin DOMAIN BOOLEAN_STATES
        THEN ValidationError("must be a boolean!")
        ELSE Ret(NoneV)

Int_validate(self, value) ==
    LET r == PyInt(value)
    IN  IF r.exc = "ValueError" THEN ValidationError("must be an integer!")
        ELSE IF r.exc # "none" THEN r
        ELSE Ret(NoneV)

Float_validate(self, value) ==
    LET r == PyFloat(value)
    IN  IF r.exc = "ValueError" THEN ValidationError("must be a float!")
        ELSE IF r.exc # "none" THEN r
        ELSE Ret(NoneV)

List_validate(self, value) == Ret(NoneV)

\* self.transform(value) only builds the map object; its result is dropped
\* without being iterated.
IntList_validate(self, value) ==
    LET r == transform(self, value)
    IN  IF r.exc = "ValueError" THEN ValidationError("must be a list of integers!")
        ELSE IF r.exc # "none" THEN r
        ELSE Ret(NoneV)

\* Perc.validate with  intval > 0  in place of  intval >= 0
Perc_validate_positive(self, value) ==
    IF ~(value.tag = "str" /\ EndsWith(value.v, <<"%">>))
    THEN ValidationError("does not end with %")
    ELSE LET r == PyInt(PyRStripPercent(value).val)
         IN  IF r.exc = "ValueError" THEN ValidationError("invalid percentage!")
             ELSE IF r.exc # "none" THEN r
             ELSE IF ~(r.val.v > 0)
             THEN ValidationError("percentage needs to be >= 0!")
             ELSE Ret(NoneV)

Perc_validate(self, value) ==
    IF value.tag # "str" THEN Raise("AttributeError", "no attribute 'endswith'")
    ELSE IF ~EndsWith(value.v, <<"%">>)
    THEN ValidationError("does not end with %")
    ELSE LET r == PyInt(PyRStripPercent(value).val)
         IN  IF r.exc = "ValueError" THEN ValidationError("invalid percentage!")
             ELSE IF r.exc # "none" THEN r
             ELSE IF ~(r.val.v >= 0)
             THEN ValidationError("percentage needs to be >= 0!")
             ELSE Ret(NoneV)

\* for val in vals: Perc.validate(self, val) -- the first exception ends the loop.
RECURSIVE PercValidateEach(_, _)
PercValidateEach(self, items) ==
    IF items = <<>> THEN Ret(NoneV)
    ELSE LET h == Perc_validate(self, items[1])
         IN  IF h.exc # "none" THEN h ELSE PercValidateEach(self, Tail(items))

\* PercList.validate without the try/except around the loop
PercList_validate_unwrapped(self, value) ==
    LET vals == List_transform(self, value)
    IN  IF vals.exc # "none" THEN vals ELSE PercValidateEach(self, vals.val.v)

PercList_validate(self, value) ==
    LET vals == List_transform(self, value)
    IN  IF vals.exc # "none" THEN vals
        ELSE LET r == PercValidateEach(self, vals.val.v)
             IN  IF r.exc = "ValidationError"
                 THEN ValidationError("must be a list of percentages!")
                 ELSE r

\* super() in ZoomPerc is Perc.
ZoomPerc_validate(self, value) == Perc_validate(self, value)

\* PercOrInt.validate with  0 <= intval < 100
PercOrInt_validate_below100(self, value) ==
    IF value.tag = "str" /\ EndsWith(value.v, <<"%">>)
    THEN LET r == PyInt(PyRStripPercent(value).val)
         IN  IF r.exc = "ValueError" THEN ValidationError("invalid percentage!")
             ELSE IF r.exc # "none" THEN r
             ELSE IF ~(0 <= r.val.v /\ r.val.v < 100)
             THEN ValidationError("percentage needs to be >= 0 and <= 100!")
             ELSE Ret(NoneV)
    ELSE LET r == PyInt(value)
         IN  IF r.exc = "ValueError" THEN ValidationError("must be integer or percentage!")
             ELSE IF r.exc # "none" THEN r
             ELSE IF r.val.v < 0 THEN ValidationError("must be >= 0")
             ELSE Ret(NoneV)

PercOrInt_validate(self, value) ==
    IF value.tag # "str" THEN Raise("AttributeError", "no attribute 'endswith'")
    ELSE IF EndsWith(value.v, <<"%">>)
    THEN LET r == PyInt(PyRStripPercent(value).val)
         IN  IF r.exc = "ValueError" THEN ValidationError("invalid percentage!")
             ELSE IF r.exc # "none" THEN r
             ELSE IF ~(0 <= r.val.v /\ r.val.v <= 100)
             THEN ValidationError("percentage needs to be >= 0 and <= 100!")
             ELSE Ret(NoneV)
    ELSE LET r == PyInt(value)
         IN  IF r.exc = "ValueError" THEN ValidationError("must be integer or percentage!")
             ELSE IF r.exc # "none" THEN r
             ELSE IF r.val.v < 0 THEN ValidationError("must be >= 0")
             ELSE Ret(NoneV)

Command_validate(self, value) == Ret(NoneV)

\* isValidColor is what QColor.isValidColor(value) answers.
Color_validate(self, value, isValidColor) ==
    IF value.tag # "str" THEN Raise("AttributeError", "no attribute 'startswith'")
    ELSE IF \E i \in 1..Len(GRADIENTS) : StartsWith(value.v, GRADIENTS[i])
    THEN Ret(NoneV)
    ELSE IF isValidColor THEN Ret(NoneV)
    ELSE ValidationError("must be a valid color")

Font_validate(self, value) == Ret(NoneV)

SearchEngineName_validate(self, value) == Ret(NoneV)

SearchEngineUrl_validate(self, value) ==
    IF value.tag # "str" THEN Raise("TypeError", "argument is not iterable")
    ELSE IF Contains(value.v, <<"{", "}">>) THEN Ret(NoneV)
    ELSE ValidationError("must contain \"{}\"")

KeyBindingName_validate(self, value) == Ret(NoneV)

AutoSearch_validate(self, value) ==
    LET l == PyLower(value)
    IN  IF l.exc # "none" THEN l
        ELSE IF l.val.v \in {s_naive, s_dns} THEN Ret(NoneV)
        ELSE Bool_validate(self, value)

\* self.validate(value)
validate(self, value, isValidColor) ==
    LET impl == Resolve(self, ValidateDefs)
    IN  CASE impl = "String" -> String_validate(self, value)
          [] impl = "Bool" -> Bool_validate(self, value)
          [] impl = "Int" -> Int_validate(self, value)
          [] impl = "Float" -> Float_validate(self, value)
          [] impl = "List" -> List_validate(self, value)
          [] impl = "IntList" -> IntList_validate(self, value)
          [] impl = "Perc" -> Perc_validate(self, value)
          [] impl = "PercList" -> PercList_validate(self, value)
          [] impl = "ZoomPerc" -> ZoomPerc_validate(self, value)
          [] impl = "PercOrInt" -> PercOrInt_validate(self, value)
          [] impl = "Command" -> Command_validate(self, value)
          [] impl = "Color" -> Color_validate(self, value, isValidColor)
          [] impl = "Font" -> Font_validate(self, value)
          [] impl = "SearchEngineName" -> SearchEngineName_validate(self, value)
          [] impl = "SearchEngineUrl" -> SearchEngineUrl_validate(self, value)
          [] impl = "KeyBindingName" -> KeyBindingName_validate(self, value)
          [] impl = "AutoSearch" -> AutoSearch_validate(self, value)
          [] OTHER -> BaseType_validate(self, value)

\* ---------------------------------------------------------------- inputs

\* The characters raw texts are enumerated over exhaustively.
FreeChars == {"0", "1", "-", "%", ",", "x"}

RECURSIVE StringsOfLen(_)
StringsOfLen(n) ==
    IF n = 0 THEN {<<>>}
    ELSE {<<c>> \o t : c \in FreeChars, t \in StringsOfLen(n - 1)}

\* Every spelling of s in upper and lower case.
RECURSIVE CaseVariants(_)
CaseVariants(s) ==
    IF s = <<>> THEN {<<>>}
    ELSE {<<c>> \o t : c \in {s[1], UpperChar(s[1])}, t \in CaseVariants(Tail(s))}

\* The tokens of the Bool table and of AutoSearch, in every case.
TokenInputs ==
    UNION {CaseVariants(s) :
             s \in {s_1, s_yes, s_true, s_on, s_0, s_no, s_false, s_off,
                    s_naive, s_dns}}

\* The members of the String-derived enumerations, lower case, upper case
\* and capitalised.
EnumInputs ==
    UNION {{s, Upper(s), <<UpperChar(s[1])>> \o Tail(s)} :
             s \in {<<"n","o","r","t","h">>, <<"s","o","u","t","h">>, <<"e","a","s","t">>, <<"w","e","s","t">>, <<"l","e","f","t">>, <<"r","i","g","h","t">>,
                    <<"p","r","e","v","i","o","u","s">>, <<"i","g","n","o","r","e">>, <<"b","l","a","n","k">>, <<"q","u","i","t">>}}

\* Further raw texts: longer numbers, lists, floats, colours, URLs.
ExampleInputs ==
    {<<"5","0","%">>, <<"1","5","0","%">>, <<"1","0","0","%">>, <<"1","0","1","%">>, <<"-","5","%">>, <<"5","0">>, <<"-","1">>, <<"4","2">>, <<"a","b","c">>, <<"m","a","y","b","e">>,
     <<"1",",","2",",","3">>, <<"1",",","x",",","3">>, <<"1","0","%",",","2","0","%">>, <<"1","0","%",",","a","b","c">>, <<"1","0","%",",","-","5","%">>, <<"5","0","%","%">>, <<"+","1">>,
     <<" ","1">>, <<"1"," ">>, <<" ","5","%">>, <<"1",".","5">>, <<".","5">>, <<"1",".">>, <<"-","1",".","5","0">>, <<"1","e","2">>, <<"1","e","-","1">>, <<"1","e">>,
     <<"n","a","n">>, <<"N","a","N">>, <<"i","n","f">>, <<"-","i","n","f">>, <<"I","n","f","i","n","i","t","y">>, <<"-","0">>, <<"-","0","%">>, <<"0",".","0">>,
     <<"#","z","z","z","z","z","z">>, <<"r","e","d">>, <<"q","l","i","n","e","a","r","g","r","a","d","i","e","n","t","(">>, <<"q","r","a","d","i","a","l","g","r","a","d","i","e","n","t">>,
     <<"q","c","o","n","i","c","a","l","g","r","a","d","i","e","n","t","(","x">>, <<"q","=","{","}">>, <<"q","=","x">>, <<"{","}">>, <<"{","x","}">>}

RawInputs ==
    UNION {StringsOfLen(n) : n \in 0..MaxLen}
        \cup TokenInputs \cup EnumInputs \cup ExampleInputs

\* ------------------------------------------------------------ the machine

VARIABLES
    typ,     \* the class of the setting type instance
    raw,     \* the raw text given for the setting
    pc,      \* "start", "validated", "transformed"
    vres,    \* the outcome of validate(raw)
    tres,    \* the outcome of the last transform call
    value,   \* the current value: raw, then what transform returned
    prev,    \* the argument of the last transform call
    ncalls,  \* the number of transform calls made
    cres     \* the outcome of consuming the sequence transform returned

vars == <<typ, raw, pc, vres, tres, value, prev, ncalls, cres>>

\* No call made yet.
Pending == [exc |-> "pending", reason |-> "", val |-> NoneV]

Init ==
    /\ typ \in Types
    /\ raw \in RawInputs
    /\ pc = "start"
    /\ vres = Pending
    /\ tres = Pending
    /\ value = StrV(raw)
    /\ prev = NoneV
    /\ ncalls = 0
    /\ cres = Pending

\* typ().validate(raw)
Validate ==
    /\ pc = "start"
    /\ \E isValidColor \in BOOLEAN :
          vres' = validate(typ, StrV(raw), isValidColor)
    /\ pc' = "validated"
    /\ UNCHANGED <<typ, raw, tres, value, prev, ncalls, cres>>

\* typ().transform(value): first on raw, then on what transform returned.
Transform ==
    /\ pc \in {"validated", "transformed"}
    /\ ncalls < MaxCalls
    /\ ncalls > 0 => tres.exc = "none"
    /\ LET r == transform(typ, value)
       IN  /\ tres' = r
           /\ value' = IF r.exc = "none" THEN r.val ELSE value
    /\ prev' = value
    /\ ncalls' = ncalls + 1
    /\ pc' = "transformed"
    /\ UNCHANGED <<typ, raw, vres, cres>>

\* The caller iterates over the sequence transform returned.
Consume ==
    /\ pc = "transformed"
    /\ tres.exc = "none"
    /\ value.tag \in {"list", "map"}
    /\ cres = Pending
    /\ cres' = Consumed(value)
    /\ UNCHANGED <<typ, raw, pc, vres, tres, value, prev, ncalls>>

Next == Validate \/ Transform \/ Consume

Spec == Init /\ [][Next]_vars

\* ------------------------------------------------------------ properties

Accepted == pc # "start" /\ vres.exc = "none"

Rejected(reason) == pc # "start" /\ vres = ValidationError(reason)

\* transform has been called once, on raw.
Transformed == ncalls = 1

TrueTokens == {s_1, s_yes, s_true, s_on}

FalseTokens == {s_0, s_no, s_false, s_off}

\* The comma-separated elements of raw.
Elements == Split(raw, ",")

\* Perc's rule for one text: ends with %, and without its trailing % parses
\* as an integer >= 0.
PercRule(s) ==
    /\ EndsWith(s, <<"%">>)
    /\ IsIntLiteral(RStrip(s, "%"))
    /\ IntLiteralVal(RStrip(s, "%")) >= 0

\* C1: for every raw AutoSearch accepts, transform returns the lower-cased
\* raw when that is "naive" or "dns", "naive" for a true token of Bool's
\* table, and the boolean False for a false token.
C1_AutoSearchTransform ==
    (typ = "AutoSearch" /\ Accepted /\ Transformed) =>
        /\ tres.exc = "none"
        /\ Lower(raw) \in {s_naive, s_dns} => tres.val = StrV(Lower(raw))
        /\ Lower(raw) \in TrueTokens => tres.val = StrV(s_naive)
        /\ Lower(raw) \in FalseTokens => tres.val = BoolV(FALSE)

\* C2: IntList.validate succeeds iff every comma-separated element parses as
\* an integer, fails otherwise with "must be a list of integers!", and the
\* transform of an accepted raw yields the parsed integers in order.
C2_IntListValidate ==
    (typ = "IntList" /\ pc # "start") =>
        /\ Accepted <=> \A i \in 1..Len(Elements) : IsIntLiteral(Elements[i])
        /\ ~Accepted => Rejected("must be a list of integers!")
        /\ (Accepted /\ Transformed /\ cres # Pending) =>
              cres = Ret(ListV([i \in 1..Len(Elements) |->
                                   IntV(IntLiteralVal(Elements[i]))]))

\* C3: for Bool, AutoSearch, Position, SelectOnRemove and LastClose, validate
\* succeeds iff raw is a member of the type's valid_values; for the three
\* String-derived types transform of an accepted raw is its lower-casing.
C3_EnumValidate ==
    (typ \in {"Bool", "AutoSearch", "Position", "SelectOnRemove", "LastClose"}
        /\ pc # "start") =>
        /\ Accepted <=> InValidValues(valid_values(typ), raw)
        /\ (typ \in {"Position", "SelectOnRemove", "LastClose"}
               /\ Accepted /\ Transformed) => tres = Ret(StrV(Lower(raw)))

\* C4: Bool.validate accepts raw iff its lower-casing is one of the 8 tokens
\* and rejects every other raw with "must be a boolean!"; transform succeeds
\* on exactly the raws validate accepts, true tokens giving True and false
\* tokens giving False.
C4_BoolTokens ==
    (typ = "Bool" /\ pc # "start") =>
        /\ Accepted <=> Lower(raw) \in TrueTokens \cup FalseTokens
        /\ ~Accepted => Rejected("must be a boolean!")
        /\ Transformed =>
              /\ tres.exc = "none" <=> Accepted
              /\ Lower(raw) \in TrueTokens => tres = Ret(BoolV(TRUE))
              /\ Lower(raw) \in FalseTokens => tres = Ret(BoolV(FALSE))

\* C4 witness: a mixed-case token validated and transformed.
C4_Witness ==
    /\ typ = "Bool"
    /\ raw = <<"O", "n">>
    /\ Accepted
    /\ Transformed
    /\ tres = Ret(BoolV(TRUE))

\* C5: Perc.validate reports the first failing check of: ends with %, the
\* text without its trailing % parses as an integer, that integer is >= 0;
\* it succeeds iff all three pass, with no upper bound, and transform of an
\* accepted text is that integer.
C5_PercChecks ==
    (typ = "Perc" /\ pc # "start") =>
        /\ ~EndsWith(raw, <<"%">>) => Rejected("does not end with %")
        /\ (EndsWith(raw, <<"%">>) /\ ~IsIntLiteral(RStrip(raw, "%"))) =>
              Rejected("invalid percentage!")
        /\ (EndsWith(raw, <<"%">>) /\ IsIntLiteral(RStrip(raw, "%"))
               /\ IntLiteralVal(RStrip(raw, "%")) < 0) =>
              Rejected("percentage needs to be >= 0!")
        /\ Accepted <=> PercRule(raw)
        /\ (Accepted /\ Transformed) =>
              tres = Ret(IntV(IntLiteralVal(RStrip(raw, "%"))))
        /\ raw = <<"5","0","%">> => Accepted /\ (Transformed => tres = Ret(IntV(50)))
        /\ raw = <<"1","5","0","%">> => Accepted
        /\ raw = <<"5","0">> => Rejected("does not end with %")
        /\ raw = <<"-","5","%">> => Rejected("percentage needs to be >= 0!")

\* C5 witness: "50%" validated and transformed to 50.
C5_Witness ==
    /\ typ = "Perc"
    /\ raw = <<"5","0","%">>
    /\ Accepted
    /\ Transformed
    /\ tres = Ret(IntV(50))

\* C6: PercList.validate succeeds iff every comma-separated element passes
\* Perc's rule; any failure is the one list-level ValidationError "must be a
\* list of percentages!", never the element's own reason; transform of an
\* accepted raw is the element-wise Perc.transform, in order.
C6_PercListWraps ==
    (typ = "PercList" /\ pc # "start") =>
        /\ Accepted <=> \A i \in 1..Len(Elements) : PercRule(Elements[i])
        /\ ~Accepted => Rejected("must be a list of percentages!")
        /\ (Accepted /\ Transformed) =>
              tres = Ret(ListV([i \in 1..Len(Elements) |->
                          Perc_transform("Perc", StrV(Elements[i])).val]))

\* C6 witness: a raw whose second element fails Perc's last check is
\* rejected with the list-level reason.
C6_Witness ==
    /\ typ = "PercList"
    /\ raw = <<"1","0","%",",","-","5","%">>
    /\ Rejected("must be a list of percentages!")

\* C7: PercOrInt.validate: a text ending with % is accepted iff without its
\* trailing % it is an integer in [0,100] (else "invalid percentage!" or the
\* range reason); any other text is accepted iff it is an integer >= 0 (else
\* "must be integer or percentage!" or "must be >= 0").
C7_PercOrIntBranches ==
    (typ = "PercOrInt" /\ pc # "start") =>
        /\ EndsWith(raw, <<"%">>) =>
              /\ Accepted <=> /\ IsIntLiteral(RStrip(raw, "%"))
                              /\ IntLiteralVal(RStrip(raw, "%")) \in 0..100
              /\ ~IsIntLiteral(RStrip(raw, "%")) => Rejected("invalid percentage!")
              /\ (IsIntLiteral(RStrip(raw, "%")) /\ ~Accepted) =>
                    Rejected("percentage needs to be >= 0 and <= 100!")
        /\ ~EndsWith(raw, <<"%">>) =>
              /\ Accepted <=> IsIntLiteral(raw) /\ IntLiteralVal(raw) >= 0
              /\ ~IsIntLiteral(raw) => Rejected("must be integer or percentage!")
              /\ (IsIntLiteral(raw) /\ ~Accepted) => Rejected("must be >= 0")
        /\ raw \in {<<"5","0","%">>, <<"5","0">>, <<"0","%">>, <<"1","0","0","%">>, <<"0">>} => Accepted
        /\ raw = <<"1","5","0","%">> => Rejected("percentage needs to be >= 0 and <= 100!")
        /\ raw = <<"-","1">> => Rejected("must be >= 0")

\* C7 witness: the upper boundary "100%" is accepted.
C7_Witness ==
    /\ typ = "PercOrInt"
    /\ raw = <<"1","0","0","%">>
    /\ Accepted

\* C8 as stated: for String, Bool, Int, Float and List, transform applied to
\* a value transform produced from an accepted raw completes and returns an
\* equal value.
C8_Idempotent ==
    (typ \in {"String", "Bool", "Int", "Float", "List"} /\ Accepted /\ ncalls >= 2) =>
        tres.exc = "none" /\ PyEq(value, prev)

\* C8 amended: for String, Int and Float, transform applied to a value
\* transform produced from an accepted raw completes and returns an equal
\* value (a Float NaN apart, which equals nothing); for Bool and List it
\* raises AttributeError, the canonical value not being a str.
C8_IdempotentOnStrAndNumbers ==
    (Accepted /\ ncalls >= 2) =>
        /\ typ \in {"String", "Int", "Float"} =>
              /\ tres.exc = "none"
              /\ value = prev
              /\ ~(value.tag = "float" /\ value.v[1] = "nan") => PyEq(value, prev)
        /\ typ \in {"Bool", "List"} => tres.exc = "AttributeError"

\* C8 witness: an upper-case text lower-cased, then transformed again.
C8_Witness ==
    /\ typ = "String"
    /\ raw = <<"N","O","R","T","H">>
    /\ Accepted
    /\ ncalls = 2
    /\ tres = Ret(StrV(<<"n","o","r","t","h">>))

\* C9: for every concrete type and every raw its validate accepts, the
\* following transform, consumption of a returned sequence included,
\* completes without an error; and no transform raises ValidationError.
C9_ValidateThenTransform ==
    /\ (typ \in ConcreteTypes /\ Accepted /\ Transformed) =>
          tres.exc = "none" /\ cres.exc \in {"pending", "none"}
    /\ tres.exc # "ValidationError"
    /\ cres.exc # "ValidationError"

\* C10: BaseType.validate raises NotImplementedError exactly when
\* valid_values is unset, and no concrete type reaches it: validate of a
\* concrete type ends in success or in a ValidationError.
C10_NotImplementedUnreachable ==
    pc # "start" =>
        /\ typ \in ConcreteTypes => vres.exc \in {"none", "ValidationError"}
        /\ typ = "BaseType" => vres.exc = "NotImplementedError"
        /\ \A cls \in Types :
              BaseType_validate(cls, StrV(raw)).exc = "NotImplementedError"
                  <=> valid_values(cls).isNone

\* C10 witness: KeyBindingName, which sets no valid_values, validated.
C10_Witness ==
    /\ typ = "KeyBindingName"
    /\ pc = "validated"
    /\ vres = Ret(NoneV)

====
